---------------------------- MODULE Spec2Model ----------------------------
(***************************************************************************)
(* A model of ezyrb's space-time reduction (SpaceTimePOD) and of the       *)
(* space-time snapshot database (SpaceTimeDatabase).                       *)
(*                                                                         *)
(* Arrays are numpy arrays: a shape (a tuple of extents) and one integer   *)
(* per index tuple, indices starting at 0.  Every reshape of the source    *)
(* uses order 'F' (the first index varies fastest) and is modelled through *)
(* the flat Fortran position of an index tuple.  A Python exception is a   *)
(* value tagged "raise"; None is a value tagged "None".                    *)
(***************************************************************************)
EXTENDS Integers, Sequences, FiniteSets, TLC

VARIABLES self, op, arg, ret, hist, db, db_op, db_arg, db_ret

vars == <<self, op, arg, ret, hist, db, db_op, db_arg, db_ret>>
pod_vars == <<self, op, arg, ret, hist>>
db_vars == <<db, db_op, db_arg, db_ret>>

(***************************************************************************)
(* Bounds of the model.                                                    *)
(***************************************************************************)
\* Largest number of entries (time * space * parameter) of a snapshot tensor
\* handed to SpaceTimePOD.reduce in the documented lifecycle (one reduce).
MaxCells == 8
\* The same, when reduce and expand are called in any order, any number of
\* times.
MaxSeqCells == 2
\* Largest extent of an axis of the arrays handed to SpaceTimeDatabase.
MaxExtent == 2
\* Largest number of parameter rows a database may hold when add is called.
MaxRows == 2

(***************************************************************************)
(* Python values.                                                          *)
(***************************************************************************)
None == [tag |-> "None"]
Raise(type, msg) == [tag |-> "raise", type |-> type, msg |-> msg]
IsNone(x) == x.tag = "None"
IsRaise(x) == x.tag = "raise"
IsArray(x) == x.tag = "ndarray"

(***************************************************************************)
(* numpy arrays.                                                           *)
(***************************************************************************)
RECURSIVE Prod(_)
Prod(sh) == IF sh = <<>> THEN 1 ELSE Head(sh) * Prod(Tail(sh))

RECURSIVE Idx(_)
\* The index tuples of an array of shape sh.
Idx(sh) ==
  IF sh = <<>> THEN {<<>>}
  ELSE {<<i>> \o rest : i \in 0..(Head(sh) - 1), rest \in Idx(Tail(sh))}

Array(sh, f(_)) == [tag |-> "ndarray", sh |-> sh, d |-> [i \in Idx(sh) |-> f(i)]]
ndim(A) == Len(A.sh)
size(A) == Prod(A.sh)

RECURSIVE FlatF(_, _)
\* Position of index tuple i in the Fortran-order reading of shape sh.
FlatF(sh, i) ==
  IF sh = <<>> THEN 0 ELSE Head(i) + Head(sh) * FlatF(Tail(sh), Tail(i))

RECURSIVE UnflatF(_, _)
\* The index tuple at Fortran-order position f of shape sh.
UnflatF(sh, f) ==
  IF sh = <<>> THEN <<>>
  ELSE <<f % Head(sh)>> \o UnflatF(Tail(sh), f \div Head(sh))

\* The extent numpy infers for the -1 of a requested shape.
InferShape(total, sh) ==
  LET known == Prod([k \in 1..Len(sh) |-> IF sh[k] = -1 THEN 1 ELSE sh[k]])
  IN  IF \A k \in 1..Len(sh) : sh[k] # -1 THEN sh
      ELSE IF known = 0 \/ total % known # 0 THEN <<-1>>
      ELSE [k \in 1..Len(sh) |-> IF sh[k] = -1 THEN total \div known ELSE sh[k]]

\* np.reshape(A, sh, 'F')
reshapeF(A, sh) ==
  LET new == InferShape(size(A), sh)
  IN  IF new = <<-1>> \/ Prod(new) # size(A)
      THEN Raise("ValueError", "cannot reshape array")
      ELSE Array(new, LAMBDA i : A.d[UnflatF(A.sh, FlatF(new, i))])

\* np.swapaxes(A, 0, 1)
swapaxes01(A) ==
  LET sw(s) == [k \in 1..Len(s) |-> IF k = 1 THEN s[2] ELSE IF k = 2 THEN s[1] ELSE s[k]]
  IN  Array(sw(A.sh), LAMBDA i : A.d[sw(i)])

\* A.T of a 2-D array
Transpose(A) == Array(<<A.sh[2], A.sh[1]>>, LAMBDA i : A.d[<<i[2], i[1]>>])

RECURSIVE SumTo(_, _)
\* f(0) + ... + f(n-1)
SumTo(f(_), n) == IF n = 0 THEN 0 ELSE SumTo(f, n - 1) + f(n - 1)

\* A @ B, A.dot(B) of 2-D arrays
matmul(A, B) ==
  IF A.sh[2] # B.sh[1] THEN Raise("ValueError", "shapes not aligned")
  ELSE Array(<<A.sh[1], B.sh[2]>>,
             LAMBDA i : SumTo(LAMBDA k : A.d[<<i[1], k>>] * B.d[<<k, i[2]>>], A.sh[2]))

\* np.kron(A, B) of 2-D arrays
kron(A, B) ==
  Array(<<A.sh[1] * B.sh[1], A.sh[2] * B.sh[2]>>,
        LAMBDA i : A.d[<<i[1] \div B.sh[1], i[2] \div B.sh[2]>>]
                 * B.d[<<i[1] % B.sh[1], i[2] % B.sh[2]>>])

\* np.hstack of two 2-D arrays
hstack2(A, B) ==
  Array(<<A.sh[1], A.sh[2] + B.sh[2]>>,
        LAMBDA i : IF i[2] < A.sh[2] THEN A.d[i] ELSE B.d[<<i[1], i[2] - A.sh[2]>>])

RECURSIVE hstack(_)
\* np.hstack of a non-empty list of 2-D arrays with the same number of rows
hstack(As) ==
  IF Len(As) = 1 THEN As[1] ELSE hstack2(hstack(SubSeq(As, 1, Len(As) - 1)), As[Len(As)])

\* Column j of a 2-D array as an n x 1 array (u[:, None] of a row u of A.T)
Column(A, j) == Array(<<A.sh[1], 1>>, LAMBDA i : A.d[<<i[1], j>>])

\* The first k columns of a 2-D array, A[:, :k]
Cols(A, k) == Array(<<A.sh[1], k>>, LAMBDA i : A.d[i])

IsIdentity(A) ==
  /\ A.sh[1] = A.sh[2]
  /\ \A i \in Idx(A.sh) : A.d[i] = (IF i[1] = i[2] THEN 1 ELSE 0)

(***************************************************************************)
(* numpy.linalg.  In this model every basis has orthonormal columns with   *)
(* integer entries (see POD below), so a Gram matrix modes^T modes is a    *)
(* signed permutation matrix whenever it is invertible; the inverse of     *)
(* such a matrix is its transpose.  A matrix with a zero row or column is  *)
(* singular.                                                               *)
(***************************************************************************)
IsSignedPermutation(A) ==
  /\ A.sh[1] = A.sh[2]
  /\ \A i \in 0..(A.sh[1] - 1) :
       /\ Cardinality({j \in 0..(A.sh[2] - 1) : A.d[<<i, j>>] # 0}) = 1
       /\ Cardinality({j \in 0..(A.sh[1] - 1) : A.d[<<j, i>>] # 0}) = 1
  /\ \A i \in Idx(A.sh) : A.d[i] \in {-1, 0, 1}

\* np.linalg.inv(A)
inv(A) ==
  IF A.sh[1] # A.sh[2]
  THEN Raise("LinAlgError", "Last 2 dimensions of the array must be square")
  ELSE IF IsSignedPermutation(A) THEN Transpose(A)
  ELSE Raise("LinAlgError", "Singular matrix")

\* np.linalg.pinv(A).  For A of full column rank the pseudo-inverse is
\* (A^T A)^-1 A^T; a rank-deficient A has a pseudo-inverse too, which has no
\* integer representation here (no basis of the model is rank-deficient).
pinv(A) ==
  LET G == inv(matmul(Transpose(A), A))
  IN  IF IsRaise(G) THEN Raise("NotRepresented", "pinv of a rank-deficient matrix")
      ELSE matmul(G, Transpose(A))

(***************************************************************************)
(* The single-axis POD (ezyrb.pod.POD) through the interface SpaceTimePOD  *)
(* consumes: reduce(matrix) fits .modes, a matrix with orthonormal columns *)
(* and as many rows as the input, and returns modes^T matrix; expand       *)
(* (coefficients) returns modes coefficients.  The bases of the model are  *)
(* the integer ones made of r <= min(rows, columns) unit vectors: column j *)
(* is the unit vector of row (j + shift) mod rows.  Which basis a reduce   *)
(* finds (its rank included: truncation) is an input of the action.        *)
(***************************************************************************)
Min(a, b) == IF a < b THEN a ELSE b

UnitBasis(n, r, shift) ==
  Array(<<n, r>>, LAMBDA i : IF i[1] = (i[2] + shift) % n THEN 1 ELSE 0)

\* The bases POD.reduce may find for a matrix of n rows and m columns.
PODBases(n, m) == {UnitBasis(n, r, s) : r \in 1..Min(n, m), s \in 0..(n - 1)}

\* POD(**args): an object that is not fitted yet
POD == [tag |-> "POD", modes |-> None]

\* The error of a POD.reduce whose decomposition fails.
PODFailure == Raise("LinAlgError", "SVD did not converge")

\* The object after POD.reduce(A) found the basis modes.
PODFit(modes) == [tag |-> "POD", modes |-> modes]

\* The value POD.reduce(A) returns when it finds the basis modes.
PODReduce(modes, A) == matmul(Transpose(modes), A)

\* POD.expand(C)
PODExpand(pod, C) ==
  IF IsNone(pod.modes)
  THEN Raise("AttributeError", "'NoneType' object has no attribute 'dot'")
  ELSE matmul(pod.modes, C)

\* A reduce with basis modes loses nothing of the matrix A.
Lossless(modes, A) == matmul(modes, matmul(Transpose(modes), A)) = A


(***************************************************************************)
(* SpaceTimePOD.                                                           *)
(***************************************************************************)
\* An attribute that was never assigned.
Absent == [tag |-> "absent"]
IsAbsent(x) == x.tag = "absent"

\* A Python int held by an attribute.
PyInt(n) == [tag |-> "int", v |-> n]

\* The dict without its last strategy.
available_methods_short ==
  << <<"tailored", "_tailored_spacetime_basis">>,
     <<"kronecker", "_kronecker_spacetime_basis">> >>

\* The dict of __init__, in insertion order: strategy name, bound method.
available_methods ==
  << <<"tailored", "_tailored_spacetime_basis">>,
     <<"kronecker", "_kronecker_spacetime_basis">>,
     <<"nested", "_nested_spacetime_reduction">> >>

\* The keys of a dict, in order (', '.join(d) joins them).
Keys(d) == [k \in 1..Len(d) |-> d[k][1]]

\* d.get(key)
Get(d, key) ==
  IF \E k \in 1..Len(d) : d[k][1] = key
  THEN d[CHOOSE k \in 1..Len(d) : d[k][1] = key][2]
  ELSE "None"

\* SpaceTimePOD.__init__: the object, or the exception raised.
SpaceTimePOD(method, optimal_modal_coefficients) ==
  LET m == Get(available_methods, method)
  IN  IF m = "None"
      THEN Raise("RuntimeError",
                 <<"Invalid method for POD. Please chose one among", Keys(available_methods)>>)
      ELSE [tag |-> "SpaceTimePOD",
            _method |-> m,
            _modes |-> None,
            _singular_values |-> None,
            _optimal_modal_coefficients |-> optimal_modal_coefficients,
            _modes_product_inv |-> None,
            _modes_inv |-> None,
            _space_points |-> Absent,
            _time_instants |-> Absent,
            _ntrain |-> Absent,
            _spatial_pod |-> Absent,
            _temporal_pod |-> Absent,
            _spatial_modal_coeffs |-> Absent]

\* The outcome of a method: the object as the method leaves it and the value
\* it returns or the exception it raises.
Outcome(obj, val) == [self |-> obj, val |-> val]

\* The factors of the Kronecker product in the other order.
KroneckerModes_swapped(Phi, Psi) == kron(Phi, Psi)

\* np.kron(Psi, Phi) of _kronecker_spacetime_basis
KroneckerModes(Phi, Psi) == kron(Psi, Phi)

\* _kronecker_spacetime_basis storing the spatial modes as soon as they are
\* found.
_kronecker_spacetime_basis_eager(obj, X1, X2, Phi, Psi, fault) ==
  IF fault = "spatial" THEN Outcome(obj, PODFailure)
  ELSE IF fault = "temporal" THEN Outcome([obj EXCEPT !._modes = Phi], PODFailure)
  ELSE Outcome([obj EXCEPT !._modes = kron(Psi, Phi)], None)

\* _kronecker_spacetime_basis(X1, X2).  Phi and Psi are the bases the two
\* sub-PODs find; fault names the sub-POD whose reduce raises, if any.
_kronecker_spacetime_basis(obj, X1, X2, Phi, Psi, fault) ==
  IF fault = "spatial" THEN Outcome(obj, PODFailure)
  ELSE IF fault = "temporal" THEN Outcome(obj, PODFailure)
  ELSE Outcome([obj EXCEPT !._modes = KroneckerModes(Phi, Psi)], None)

\* X2Phi_i of _tailored_basis_piece: column i is X2[:, i*S:(i+1)*S] @ u.
X2Phi(X2, u, ntrain) ==
  LET S == u.sh[1]
  IN  Array(<<X2.sh[1], ntrain>>,
            LAMBDA i : SumTo(LAMBDA s : X2.d[<<i[1], i[2] * S + s>>] * u.d[<<s, 0>>], S))

\* The value _tailored_basis_piece returns for the spatial mode u when the
\* temporal POD finds the basis Psi_i.
_tailored_basis_piece(Psi_i, u) == kron(Psi_i, u)

\* _tailored_spacetime_basis(X1, X2).  Psis[j] is the basis the temporal POD
\* finds for the j-th spatial mode; with fault "temporal" its reduce raises
\* at the piece of spatial mode number fi.
_tailored_spacetime_basis(obj, X1, X2, Phi, Psis, fault, fi) ==
  IF fault = "spatial" THEN Outcome(obj, PODFailure)
  ELSE IF fault = "temporal"
  THEN Outcome([obj EXCEPT !._temporal_pod = IF fi = 1 THEN POD ELSE PODFit(Psis[fi - 1])],
               PODFailure)
  ELSE Outcome([obj EXCEPT
                  !._temporal_pod = PODFit(Psis[Len(Psis)]),
                  !._modes = hstack([j \in 1..Len(Psis) |->
                                       _tailored_basis_piece(Psis[j], Column(Phi, j - 1))])],
               None)

\* coeffstime_mu of _nested_spacetime_reduction
NestedCoeffs(spatial_modal_coeffs, ntrain) == reshapeF(spatial_modal_coeffs, <<-1, ntrain>>)

\* _nested_spacetime_reduction(X1)
_nested_spacetime_reduction(obj, X1, Phi, Psi, fault) ==
  IF fault = "spatial" THEN Outcome([obj EXCEPT !._spatial_pod = POD], PODFailure)
  ELSE
    LET o1 == [obj EXCEPT !._spatial_pod = PODFit(Phi),
                          !._spatial_modal_coeffs = PODReduce(Phi, X1)]
        coeffstime_mu == NestedCoeffs(o1._spatial_modal_coeffs, o1._ntrain.v)
    IN  IF fault = "temporal" THEN Outcome([o1 EXCEPT !._temporal_pod = POD], PODFailure)
        ELSE Outcome([o1 EXCEPT !._temporal_pod = PODFit(Psi)], PODReduce(Psi, coeffstime_mu))

\* temp, X1, X2, X3 of reduce
TempOf(X) == swapaxes01(X)
X1Of(temp) == reshapeF(temp, <<temp.sh[1], -1>>)
X2Of(X) == reshapeF(X, <<X.sh[1], -1>>)
X3Of(temp) == reshapeF(temp, <<-1, temp.sh[3]>>)

\* The constant matrix of reduce for optimal_modal_coefficients
ModesProductInv(modes) ==
  LET G == inv(matmul(Transpose(modes), modes))
  IN  IF IsRaise(G) THEN G ELSE matmul(G, Transpose(modes))

\* The part of reduce after the basis is built: the cached operator, then the
\* modal coefficients.
ModalCoefficients(obj, X3) ==
  IF obj._optimal_modal_coefficients
  THEN LET c == IF IsNone(obj._modes_product_inv)
                THEN ModesProductInv(obj._modes) ELSE obj._modes_product_inv
       IN  IF IsRaise(c) THEN Outcome(obj, c)
           ELSE Outcome([obj EXCEPT !._modes_product_inv = c], matmul(c, X3))
  ELSE LET c == IF IsNone(obj._modes_inv) THEN pinv(obj._modes) ELSE obj._modes_inv
       IN  IF IsRaise(c) THEN Outcome(obj, c)
           ELSE Outcome([obj EXCEPT !._modes_inv = c], matmul(c, X3))

\* SpaceTimePOD.reduce(X), X a 3-D array.  b holds what the sub-PODs do in
\* this call: Phi, Psi (nested, kronecker), Psis (tailored), fault, fi.
reduce(obj, X, b) ==
  LET temp == TempOf(X)
      o1 == [obj EXCEPT !._space_points = PyInt(temp.sh[1]),
                        !._time_instants = PyInt(temp.sh[2]),
                        !._ntrain = PyInt(temp.sh[3])]
      X1 == X1Of(temp)
  IN  IF o1._method \in {"_tailored_spacetime_basis", "_kronecker_spacetime_basis"}
      THEN LET X2 == X2Of(X)
               built == IF o1._method = "_tailored_spacetime_basis"
                        THEN _tailored_spacetime_basis(o1, X1, X2, b.Phi, b.Psis, b.fault, b.fi)
                        ELSE _kronecker_spacetime_basis(o1, X1, X2, b.Phi, b.Psi, b.fault)
           IN  IF IsRaise(built.val) THEN built
               ELSE ModalCoefficients(built.self, X3Of(temp))
      ELSE _nested_spacetime_reduction(o1, X1, b.Phi, b.Psi, b.fault)

\* expand for the tailored and the kronecker strategy without the final swap
\* of the space and time axes.
ExpandBasis_noswap(obj, X) ==
  IF IsNone(obj._modes)
  THEN Raise("AttributeError", "'NoneType' object has no attribute 'dot'")
  ELSE LET expanded == matmul(obj._modes, X)
       IN  IF IsRaise(expanded) THEN expanded
           ELSE reshapeF(expanded, <<obj._space_points.v, obj._time_instants.v, -1>>)

\* The result of expand for the tailored and the kronecker strategy
ExpandBasis(obj, X) ==
  IF IsNone(obj._modes)
  THEN Raise("AttributeError", "'NoneType' object has no attribute 'dot'")
  ELSE LET expanded == matmul(obj._modes, X)
       IN  IF IsRaise(expanded) THEN expanded
           ELSE LET space_time == reshapeF(expanded,
                                           <<obj._space_points.v, obj._time_instants.v, -1>>)
                IN  IF IsRaise(space_time) THEN space_time ELSE swapaxes01(space_time)

\* The result of expand for the nested strategy
ExpandNested(obj, X) ==
  IF IsAbsent(obj._temporal_pod)
  THEN Raise("AttributeError", "'SpaceTimePOD' object has no attribute '_temporal_pod'")
  ELSE LET e1 == PODExpand(obj._temporal_pod, X)
       IN  IF IsRaise(e1) THEN e1
           ELSE LET coeffstime_mu == Transpose(e1)
                    coeffs_timemu == reshapeF(coeffstime_mu,
                                              <<-1, obj._time_instants.v * obj._ntrain.v>>)
                IN  IF IsRaise(coeffs_timemu) THEN coeffs_timemu
                    ELSE LET e2 == PODExpand(obj._spatial_pod, coeffs_timemu)
                         IN  IF IsRaise(e2) THEN e2
                             ELSE LET X1 == Transpose(e2)
                                      r == reshapeF(X1, <<obj._space_points.v,
                                                          obj._time_instants.v, obj._ntrain.v>>)
                                  IN  IF IsRaise(r) THEN r ELSE swapaxes01(r)

\* SpaceTimePOD.expand(X), X a 2-D array
expand(obj, X) ==
  IF obj._method \in {"_tailored_spacetime_basis", "_kronecker_spacetime_basis"}
  THEN ExpandBasis(obj, X)
  ELSE ExpandNested(obj, X)


(***************************************************************************)
(* The calls on one SpaceTimePOD object.  op, arg and ret record the last  *)
(* call, its argument and what it returned or raised; hist records, for    *)
(* the last reduce, its tensor, its outcome, the ranks the sub-PODs found  *)
(* and whether every sub-POD reduce lost nothing.                          *)
(***************************************************************************)
\* The strategy names a caller may pass; the last two are not strategies.
MethodNames == {"tailored", "kronecker", "nested", "bogus", "standard"}

\* The shapes (time, space, parameter) of the tensors of at most n entries.
Shapes(n) == {sh \in (1..n) \X (1..n) \X (1..n) : sh[1] * sh[2] * sh[3] <= n}

\* A tensor whose entries are all different, and the tensors with a single
\* entry 1: the latter span all tensors of the shape.
CodedTensor(sh) == Array(sh, LAMBDA i : 1 + FlatF(sh, i))
UnitTensor(sh, at) == Array(sh, LAMBDA i : IF i = at THEN 1 ELSE 0)
Tensors(n) == {CodedTensor(sh) : sh \in Shapes(n)}
              \cup UNION {{UnitTensor(sh, at) : at \in Idx(sh)} : sh \in Shapes(n)}

CodedMatrix(n, k) == Array(<<n, k>>, LAMBDA i : 1 + FlatF(<<n, k>>, i))

\* hist of an object no reduce was called on.
NoHist ==
  [tag |-> "hist", X |-> None, coeffs |-> None, rs |-> 0, rts |-> <<>>,
   lossless |-> FALSE, fitted |-> FALSE]

\* hist after a reduce of X with outcome out; fitted: some reduce on the
\* object has returned coefficients.
Hist(X, out, rs, rts, lossless) ==
  [tag |-> "hist", X |-> X, coeffs |-> out.val,
   rs |-> IF IsRaise(out.val) THEN 0 ELSE rs,
   rts |-> IF IsRaise(out.val) THEN <<>> ELSE rts,
   lossless |-> IF IsRaise(out.val) THEN FALSE ELSE lossless,
   fitted |-> hist.fitted \/ ~IsRaise(out.val)]

Faults == {"none", "spatial", "temporal"}

Ranks(Ms) == [j \in 1..Len(Ms) |-> Ms[j].sh[2]]

Construct ==
  /\ IsNone(self)
  /\ \E name \in MethodNames, omc \in BOOLEAN :
       LET o == SpaceTimePOD(name, omc)
       IN  /\ self' = IF IsRaise(o) THEN None ELSE o
           /\ op' = "init"
           /\ arg' = [tag |-> "args", method |-> name, optimal_modal_coefficients |-> omc]
           /\ ret' = IF IsRaise(o) THEN o ELSE None
           /\ hist' = IF IsRaise(o) THEN None ELSE NoHist
  /\ UNCHANGED db_vars

Called(X, out, h) ==
  /\ self' = out.self
  /\ op' = "reduce"
  /\ arg' = X
  /\ ret' = out.val
  /\ hist' = h
  /\ UNCHANGED db_vars

ReduceKronecker(Xs) ==
  /\ ~IsNone(self)
  /\ self._method = "_kronecker_spacetime_basis"
  /\ \E X \in Xs, fault \in Faults :
       LET T == X.sh[1]  S == X.sh[2]  P == X.sh[3]
       IN  \E Phi \in PODBases(S, T * P), Psi \in PODBases(T, S * P) :
             LET out == reduce(self, X, [Phi |-> Phi, Psi |-> Psi, Psis |-> <<>>,
                                         fault |-> fault, fi |-> 0])
                 lossless == /\ Lossless(Phi, X1Of(TempOf(X)))
                             /\ Lossless(Psi, X2Of(X))
             IN  Called(X, out, Hist(X, out, Phi.sh[2], <<Psi.sh[2]>>, lossless))

ReduceTailored(Xs) ==
  /\ ~IsNone(self)
  /\ self._method = "_tailored_spacetime_basis"
  /\ \E X \in Xs, fault \in Faults :
       LET T == X.sh[1]  S == X.sh[2]  P == X.sh[3]
       IN  \E Phi \in PODBases(S, T * P) :
           \E Psis \in [1..Phi.sh[2] -> PODBases(T, P)] :
           \E fi \in IF fault = "temporal" THEN 1..Phi.sh[2] ELSE {0} :
             LET out == reduce(self, X, [Phi |-> Phi, Psi |-> None, Psis |-> Psis,
                                         fault |-> fault, fi |-> fi])
                 lossless ==
                   /\ Lossless(Phi, X1Of(TempOf(X)))
                   /\ \A j \in 1..Len(Psis) :
                        Lossless(Psis[j], X2Phi(X2Of(X), Column(Phi, j - 1), P))
             IN  Called(X, out, Hist(X, out, Phi.sh[2], Ranks(Psis), lossless))

ReduceNested(Xs) ==
  /\ ~IsNone(self)
  /\ self._method = "_nested_spacetime_reduction"
  /\ \E X \in Xs, fault \in Faults :
       LET T == X.sh[1]  S == X.sh[2]  P == X.sh[3]
       IN  \E Phi \in PODBases(S, T * P) :
           \E Psi \in PODBases(Phi.sh[2] * T, P) :
             LET out == reduce(self, X, [Phi |-> Phi, Psi |-> Psi, Psis |-> <<>>,
                                         fault |-> fault, fi |-> 0])
                 lossless ==
                   /\ Lossless(Phi, X1Of(TempOf(X)))
                   /\ Lossless(Psi, NestedCoeffs(PODReduce(Phi, X1Of(TempOf(X))), P))
             IN  Called(X, out, Hist(X, out, Phi.sh[2], <<Psi.sh[2]>>, lossless))

\* The number of rows a coefficient matrix has for the object: the width of
\* its basis (1 for an object without one).
NModes(obj) ==
  IF IsArray(obj._modes) THEN obj._modes.sh[2]
  ELSE IF obj._temporal_pod.tag = "POD" /\ IsArray(obj._temporal_pod.modes)
       THEN obj._temporal_pod.modes.sh[2]
  ELSE 1

\* The coefficient matrices handed to expand: the first k columns of what
\* the last reduce returned, and a matrix of different entries with k
\* columns, k up to the number of training parameters.
ExpandArgs ==
  LET P == IF IsAbsent(self._ntrain) THEN 1 ELSE self._ntrain.v
  IN  {CodedMatrix(NModes(self), k) : k \in 1..P}
      \cup (IF IsArray(hist.coeffs)
            THEN {Cols(hist.coeffs, k) : k \in 1..hist.coeffs.sh[2]} ELSE {})

Expand ==
  /\ ~IsNone(self)
  /\ \E X \in ExpandArgs :
       /\ op' = "expand"
       /\ arg' = X
       /\ ret' = expand(self, X)
  /\ UNCHANGED <<self, hist>>
  /\ UNCHANGED db_vars

Init ==
  /\ self = None /\ op = "none" /\ arg = None /\ ret = None /\ hist = None
  /\ db = None /\ db_op = "none" /\ db_arg = None /\ db_ret = None

\* Any sequence of calls on the object.
Next ==
  \/ Construct
  \/ ReduceKronecker(Tensors(MaxSeqCells))
  \/ ReduceTailored(Tensors(MaxSeqCells))
  \/ ReduceNested(Tensors(MaxSeqCells))
  \/ Expand

Spec == Init /\ [][Next]_vars

\* The documented lifecycle: reduce is called exactly once, then expand any
\* number of times.
FirstReduce == ~IsNone(self) /\ IsAbsent(self._space_points)

NextLifecycle ==
  \/ Construct
  \/ (FirstReduce /\ ReduceKronecker(Tensors(MaxCells)))
  \/ (FirstReduce /\ ReduceTailored(Tensors(MaxCells)))
  \/ (FirstReduce /\ ReduceNested(Tensors(MaxCells)))
  \/ Expand

SpecLifecycle == Init /\ [][NextLifecycle]_vars
(***************************************************************************)
(* SpaceTimeDatabase.  The two scalers are left at their default None, so  *)
(* the properties parameters and snapshots return the stored arrays.       *)
(***************************************************************************)
\* len(x) of an array with at least one axis
PyLen(x) == x.sh[1]

\* A selector of one axis: an int i, or the slice start::step.
IntSel(i) == [tag |-> "int", v |-> i]
SliceSel(start, step) == [tag |-> "slice", start |-> start, step |-> step]
\* The slice ':'
FullSlice == SliceSel(0, 1)

\* The number of indices start::step selects among n.
SliceLen(sel, n) ==
  IF sel.start >= n THEN 0 ELSE (n - sel.start + sel.step - 1) \div sel.step

\* A[sels], one int or slice per axis (numpy basic indexing): an int drops its
\* axis, a slice keeps it; an int out of range raises.
Index(A, sels) ==
  IF \E k \in 1..Len(sels) : sels[k].tag = "int" /\ sels[k].v \notin 0..(A.sh[k] - 1)
  THEN Raise("IndexError", "index is out of bounds")
  ELSE
  LET kept == {k \in 1..Len(sels) : sels[k].tag = "slice"}
      \* the position of axis k among the kept axes
      pos(k) == Cardinality({j \in kept : j <= k})
      axis(n) == CHOOSE k \in kept : pos(k) = n
      new == [n \in 1..Cardinality(kept) |-> SliceLen(sels[axis(n)], A.sh[axis(n)])]
      old(i) == [k \in 1..Len(sels) |->
                   IF sels[k].tag = "int" THEN sels[k].v
                   ELSE sels[k].start + sels[k].step * i[pos(k)]]
  IN  Array(new, LAMBDA i : A.d[old(i)])

\* np.vstack([A, B]) of two arrays with at least two axes
vstack(A, B) ==
  IF Len(A.sh) # Len(B.sh) \/ Tail(A.sh) # Tail(B.sh)
  THEN Raise("ValueError", "all the input array dimensions must match")
  ELSE Array(<<A.sh[1] + B.sh[1]>> \o Tail(A.sh),
             LAMBDA i : IF i[1] < A.sh[1] THEN A.d[i]
                        ELSE B.d[<<i[1] - A.sh[1]>> \o Tail(i)])

\* The object __init__ starts from.
EmptyDatabase ==
  [tag |-> "SpaceTimeDatabase", _parameters |-> None, _time_instants |-> None,
   _snapshots |-> None, scaler_parameters |-> None, scaler_snapshots |-> None]

\* The dimension check comparing the time instants with the space axis.
DimensionsAgree_space(parameters, time_instants, snapshots) ==
  /\ snapshots.sh[1] = PyLen(parameters)
  /\ snapshots.sh[2] = PyLen(time_instants)

\* The dimension check of add: the counts of parameters and of time instants
\* agree with the snapshots.
DimensionsAgree(parameters, time_instants, snapshots) ==
  /\ snapshots.sh[1] = PyLen(parameters)
  /\ snapshots.sh[3] = PyLen(time_instants)

\* SpaceTimeDatabase.add(parameters, time_instants, snapshots)
add(obj, parameters, time_instants, snapshots) ==
  IF ~IsArray(snapshots) \/ ndim(snapshots) # 3
  THEN Outcome(obj, Raise("ValueError", "The provided snapshot must be a 3D nparray"))
  ELSE IF ~DimensionsAgree(parameters, time_instants, snapshots)
  THEN Outcome(obj, Raise("ValueError", "Dimensions do not agree."))
  ELSE IF IsNone(obj._parameters) /\ IsNone(obj._time_instants) /\ IsNone(obj._snapshots)
  THEN Outcome([obj EXCEPT !._parameters = parameters,
                           !._time_instants = time_instants,
                           !._snapshots = snapshots], obj)
  ELSE LET ps == vstack(obj._parameters, parameters)
       IN  IF IsRaise(ps) THEN Outcome(obj, ps)
           ELSE LET o1 == [obj EXCEPT !._parameters = ps]
                    ss == vstack(o1._snapshots, snapshots)
                IN  IF IsRaise(ss) THEN Outcome(o1, ss)
                    ELSE Outcome([o1 EXCEPT !._snapshots = ss], obj)

\* The number of arguments of __init__ that are not None
Provided(parameters, time_instants, snapshots) ==
  (IF IsNone(parameters) THEN 0 ELSE 1) + (IF IsNone(time_instants) THEN 0 ELSE 1)
    + (IF IsNone(snapshots) THEN 0 ELSE 1)

\* SpaceTimeDatabase.__init__: the object, or the exception raised.
SpaceTimeDatabase(parameters, time_instants, snapshots) ==
  LET provided == Provided(parameters, time_instants, snapshots)
  IN  IF provided # 0 /\ provided # 3
      THEN Raise("RuntimeError", "Wrong number of arguments")
      ELSE IF ~IsNone(parameters) /\ ~IsNone(snapshots)
      THEN LET out == add(EmptyDatabase, parameters, time_instants, snapshots)
           IN  IF IsRaise(out.val) THEN out.val ELSE out.self
      ELSE EmptyDatabase

\* The properties parameters, time_instants and snapshots
parameters(obj) == obj._parameters
time_instants(obj) == obj._time_instants
snapshots(obj) == obj._snapshots

\* SpaceTimeDatabase.__getitem__(indexes): indexes is one selector, or a pair
\* of selectors [tag |-> "tuple", p, t].
getitem(obj, indexes) ==
  LET pair == IF indexes.tag = "tuple" THEN indexes
              ELSE [tag |-> "tuple", p |-> indexes, t |-> FullSlice]
  IN  IF IsNone(obj._parameters)
      THEN Raise("TypeError", "'NoneType' object is not subscriptable")
      ELSE LET ps == Index(obj._parameters, <<pair.p, FullSlice>>)
               ts == Index(obj._time_instants, <<pair.t>>)
               ss == Index(obj._snapshots, <<pair.p, FullSlice, pair.t>>)
           IN  IF IsRaise(ps) THEN ps
               ELSE IF IsRaise(ts) THEN ts
               ELSE IF IsRaise(ss) THEN ss
               ELSE SpaceTimeDatabase(ps, ts, ss)

\* SpaceTimeDatabase.__len__
len(obj) ==
  IF IsNone(obj._snapshots)
  THEN Raise("AttributeError", "'NoneType' object has no attribute 'shape'")
  ELSE obj._snapshots.sh[2] * obj._snapshots.sh[3]

(***************************************************************************)
(* The calls on one SpaceTimeDatabase object.  db_op, db_arg and db_ret    *)
(* record the last call, its arguments and what it returned or raised.     *)
(***************************************************************************)
\* Arrays whose entries all differ, starting at base.
Coded(sh, base) == Array(sh, LAMBDA i : base + FlatF(sh, i))

\* A Python list holding what the array holds.
AsList(A) == [A EXCEPT !.tag = "list"]

\* Parameters: n rows of one parameter; time instants: n values; snapshots:
\* 3-D arrays, a 2-D array and a list of lists of lists.
ParameterArgs == {Coded(<<n, 1>>, 10) : n \in 1..MaxExtent}
TimeArgs == {Coded(<<n>>, 100) : n \in 1..MaxExtent}
SnapshotArgs ==
  {Coded(sh, 1000) : sh \in (1..MaxExtent) \X (1..MaxExtent) \X (1..MaxExtent)}
  \cup {Coded(<<1, 1>>, 1000), AsList(Coded(<<1, 1, 1>>, 1000))}

DBArgs(ps, ts, ss) ==
  {[tag |-> "args", parameters |-> p, time_instants |-> t, snapshots |-> x] :
     p \in ps, t \in ts, x \in ss}

DBConstruct ==
  /\ IsNone(db)
  /\ \E a \in DBArgs(ParameterArgs \cup {None}, TimeArgs \cup {None}, SnapshotArgs \cup {None}) :
       LET o == SpaceTimeDatabase(a.parameters, a.time_instants, a.snapshots)
       IN  /\ db' = IF IsRaise(o) THEN None ELSE o
           /\ db_op' = "init"
           /\ db_arg' = a
           /\ db_ret' = IF IsRaise(o) THEN o ELSE None
  /\ UNCHANGED pod_vars

DBAdd ==
  /\ ~IsNone(db)
  /\ \E a \in DBArgs(ParameterArgs, TimeArgs, SnapshotArgs) :
       /\ IF IsNone(db._parameters) THEN TRUE
          ELSE db._parameters.sh[1] + PyLen(a.parameters) <= MaxRows
       /\ LET out == add(db, a.parameters, a.time_instants, a.snapshots)
          IN  /\ db' = out.self
              /\ db_op' = "add"
              /\ db_arg' = a
              /\ db_ret' = IF IsRaise(out.val) THEN out.val ELSE [tag |-> "self"]
  /\ UNCHANGED pod_vars

\* The selectors of an axis of extent n: the slices start::step and the ints
\* in range.
Selectors(n) ==
  {SliceSel(start, step) : start \in 0..n, step \in 1..2} \cup {IntSel(i) : i \in 0..(n - 1)}

DBGetItem ==
  /\ ~IsNone(db)
  /\ ~IsNone(db._parameters)
  /\ \E p \in Selectors(db._parameters.sh[1]) :
     \E ix \in {p} \cup {[tag |-> "tuple", p |-> p, t |-> t] :
                          t \in Selectors(db._time_instants.sh[1])} :
       /\ db_op' = "getitem"
       /\ db_arg' = ix
       /\ db_ret' = getitem(db, ix)
  /\ UNCHANGED db
  /\ UNCHANGED pod_vars

DBLen ==
  /\ ~IsNone(db)
  /\ ~IsNone(db._snapshots)
  /\ db_op' = "len"
  /\ db_arg' = None
  /\ db_ret' = [tag |-> "int", v |-> len(db)]
  /\ UNCHANGED db
  /\ UNCHANGED pod_vars

NextDB == DBConstruct \/ DBAdd \/ DBGetItem \/ DBLen

SpecDB == Init /\ [][NextDB]_vars

(***************************************************************************)
(* Properties of SpaceTimePOD.                                             *)
(***************************************************************************)
BasisStrategy(obj) ==
  obj._method \in {"_tailored_spacetime_basis", "_kronecker_spacetime_basis"}

IsFitPOD(pod) == pod.tag = "POD" /\ IsArray(pod.modes)

\* The object holds what expand needs: a basis, or two fitted sub-PODs.
Fit(obj) ==
  IF BasisStrategy(obj) THEN IsArray(obj._modes)
  ELSE IsFitPOD(obj._spatial_pod) /\ IsFitPOD(obj._temporal_pod)

\* The state follows an expand of the coefficients the reduce of hist.X
\* returned, all of them.
RoundTrip == op = "expand" /\ IsArray(hist.coeffs) /\ arg = hist.coeffs

RECURSIVE SeqSum(_)
SeqSum(q) == IF q = <<>> THEN 0 ELSE Head(q) + SeqSum(Tail(q))

\* C1: for the kronecker and the tailored strategy, with either setting of
\* optimal_modal_coefficients and sub-PODs that lose nothing,
\* expand(reduce(X)) has the shape of X and the value of X at every index.
C1_RoundTripBasis ==
  (RoundTrip /\ BasisStrategy(self) /\ hist.lossless)
    => (IsArray(ret) /\ ret.sh = hist.X.sh /\ ret = hist.X)

\* A tailored round trip of a tensor with two time instants, two space
\* points and two parameters whose entries all differ.
C1_Witness ==
  /\ RoundTrip /\ hist.lossless
  /\ self._method = "_tailored_spacetime_basis"
  /\ hist.X = CodedTensor(<<2, 2, 2>>)
  /\ ret = hist.X

C3_Shapes ==
  /\ (op = "reduce" /\ ~IsRaise(ret)) =>
       LET n == IF self._method = "_kronecker_spacetime_basis"
                THEN hist.rs * hist.rts[1]
                ELSE IF self._method = "_tailored_spacetime_basis"
                THEN SeqSum(hist.rts)
                ELSE hist.rts[1]
       IN  /\ IsArray(ret)
           /\ ret.sh = <<n, arg.sh[3]>>
           /\ BasisStrategy(self) =>
                (IsArray(self._modes) /\ self._modes.sh = <<arg.sh[2] * arg.sh[1], n>>)
           /\ self._method = "_tailored_spacetime_basis" => Len(hist.rts) = hist.rs
  /\ RoundTrip => (IsArray(ret) /\ ret.sh = hist.X.sh)

\* expand has returned a tensor whose axes all differ from what reduce
\* returned for it: 1 time instant, 2 space points, 2 parameters, 2 modes.
C3_Witness ==
  /\ RoundTrip /\ IsArray(ret)
  /\ hist.X.sh = <<1, 2, 2>> /\ ret.sh = <<1, 2, 2>>
  /\ self._method = "_kronecker_spacetime_basis"
  /\ self._modes.sh = <<2, 2>>

\* C4: after a successful reduce on a tensor of shape (T, S, P), for every
\* strategy and every k in 1..P, expand of a coefficient matrix of k columns
\* returns a tensor of shape (T, S, k).
C4_ExpandAnyWidth ==
  (op = "expand" /\ IsArray(hist.coeffs) /\ arg.sh[1] = NModes(self)
     /\ arg.sh[2] \in 1..hist.X.sh[3])
    => (IsArray(ret) /\ ret.sh = <<hist.X.sh[1], hist.X.sh[2], arg.sh[2]>>)

\* C5: on an object on which no reduce has succeeded, expand raises a "not
\* fitted" error, returns no tensor and leaves the object unfit.
C5_ExpandUnfit ==
  (op = "expand" /\ ~hist.fitted)
    => (IsRaise(ret) /\ ret.type = "NotFittedError" /\ ~Fit(self))

C7_ModesImmutable ==
  [][(~IsNone(self) /\ IsArray(self._modes)) => self'._modes = self._modes]_vars

\* C8: constructing succeeds exactly for the names tailored, kronecker and
\* nested and then yields an unfit object; any other name raises an error
\* whose message lists the three names, and there is no object.
C8_Construct ==
  op = "init" =>
    /\ (arg.method \in {"tailored", "kronecker", "nested"}) <=> ~IsNone(self)
    /\ ~IsNone(self) =>
         /\ IsNone(self._modes)
         /\ IsNone(self._modes_product_inv) /\ IsNone(self._modes_inv)
         /\ ~Fit(self)
         /\ IsNone(ret)
    /\ IsNone(self) =>
         /\ IsRaise(ret)
         /\ ret.msg[2] = <<"tailored", "kronecker", "nested">>

\* A construction with a name that is no strategy has raised.
C8_Witness == op = "init" /\ arg.method = "bogus" /\ IsRaise(ret) /\ IsNone(self)

(***************************************************************************)
(* Properties of SpaceTimeDatabase.                                        *)
(***************************************************************************)
\* The indices a selector selects on an axis of extent n, in order.
Selected(sel, n) ==
  IF sel.tag = "int" THEN <<sel.v>>
  ELSE [j \in 1..SliceLen(sel, n) |-> sel.start + sel.step * (j - 1)]

ConsistentDB(obj) ==
  /\ IsArray(obj._parameters) /\ IsArray(obj._time_instants) /\ IsArray(obj._snapshots)
  /\ obj._snapshots.sh[1] = obj._parameters.sh[1]
  /\ obj._snapshots.sh[3] = obj._time_instants.sh[1]

\* C10: for a non-empty database and any selection of parameters and time
\* instants, each a slice or a single int, db[p_sel, t_sel] is a new database
\* with the selected parameters, the selected time instants and the
\* snapshots of those pairs at all space points; db[p_sel] selects all time
\* instants.
C10_GetItem ==
  (db_op = "getitem" /\ ConsistentDB(db)) =>
    LET psel == IF db_arg.tag = "tuple" THEN db_arg.p ELSE db_arg
        tsel == IF db_arg.tag = "tuple" THEN db_arg.t ELSE FullSlice
        pi == Selected(psel, db._parameters.sh[1])
        ti == Selected(tsel, db._time_instants.sh[1])
        S == db._snapshots.sh[2]
    IN  /\ db_ret.tag = "SpaceTimeDatabase"
        /\ db_ret._parameters =
             Array(<<Len(pi), db._parameters.sh[2]>>,
                   LAMBDA i : db._parameters.d[<<pi[i[1] + 1], i[2]>>])
        /\ db_ret._time_instants =
             Array(<<Len(ti)>>, LAMBDA i : db._time_instants.d[<<ti[i[1] + 1]>>])
        /\ db_ret._snapshots =
             Array(<<Len(pi), S, Len(ti)>>,
                   LAMBDA i : db._snapshots.d[<<pi[i[1] + 1], i[2], ti[i[3] + 1]>>])

\* C11: len(db) of a non-empty database is the number of snapshots it stores:
\* the number of parameters times the number of time instants, whatever the
\* number of space points.
C11_Len ==
  (db_op = "len" /\ ConsistentDB(db))
    => db_ret.v = PyLen(parameters(db)) * PyLen(time_instants(db))

\* C12: the snapshots a database accepted follow the axes of
\* SpaceTimePOD.reduce (time, space, parameter): their first extent is the
\* number of time instants and their third the number of parameters, so that
\* reduce(db.snapshots) records that many time instants and that ntrain.
C12_AxisConvention ==
  (~IsNone(db) /\ ConsistentDB(db)) =>
    LET b == [Phi |-> None, Psi |-> None, Psis |-> <<>>, fault |-> "spatial", fi |-> 0]
        o == reduce(SpaceTimePOD("nested", FALSE), snapshots(db), b).self
    IN  /\ snapshots(db).sh[1] = PyLen(time_instants(db))
        /\ snapshots(db).sh[3] = PyLen(parameters(db))
        /\ o._time_instants.v = PyLen(time_instants(db))
        /\ o._ntrain.v = PyLen(parameters(db))

\* C13: for the kronecker and the tailored strategy, after any sequence of
\* reduce and expand calls the cached inverse operator the object holds is
\* the one derived from its current modes, never one of an earlier basis.
C13_CacheCurrent ==
  (~IsNone(self) /\ BasisStrategy(self) /\ IsArray(self._modes)) =>
    /\ IsArray(self._modes_product_inv)
         => self._modes_product_inv = ModesProductInv(self._modes)
    /\ IsArray(self._modes_inv) => self._modes_inv = pinv(self._modes)

\* C14: in every state a database reaches by add calls, also after an add
\* that raised, its fields are all unset or agree: snapshots is 3-D, its
\* first extent is the number of parameter rows and its third the number of
\* time instants.
C14_FieldsConsistent ==
  ~IsNone(db) =>
    \/ IsNone(db._parameters) /\ IsNone(db._time_instants) /\ IsNone(db._snapshots)
    \/ ConsistentDB(db) /\ ndim(db._snapshots) = 3

=============================================================================
